---------------------------- MODULE Spec2Model ----------------------------
(***************************************************************************)
(* Investing Simulator (dollar-cost averaging): the page script of         *)
(* app_investing_simulator.py and the functions of helper.py as a state    *)
(* machine.  One behaviour is one browser session: the form inputs and the *)
(* market data are fixed at Init, every Render is one execution of the     *)
(* script from its first line, and st.session_state survives between them. *)
(*                                                                         *)
(* Numbers.  Dates are day ordinals of a non-leap year (1 = Jan 1).        *)
(* Prices and money are integers in cents.  Share counts are integers in   *)
(* units of 1/ShareUnit share.  Percentages rounded by round(x, 2) are     *)
(* integers in hundredths of a percent; the unrounded percentage of the    *)
(* aggregate row is kept as a fraction [num, den].                         *)
(***************************************************************************)
EXTENDS Integers, Sequences, FiniteSets, TLC

\* ------------------------------------------------------------------ bounds

\* First day of the date range picked in the form (Jan 1).
DateStart == 1
\* Last day of the date range picked in the form (Feb 3).
DateEnd == 34
\* Number of executions of the script in one session.
MaxRenders == 2

\* Latest start date given to is_investment_day_valid (Feb 2).
DayMaxStart == 33
\* Latest end date given to is_investment_day_valid (Mar 31).
DayMaxEnd == 90

\* ------------------------------------------------------- program constants

\* st.number_input(value=100): the periodic amount, in currency units.
InvestmentAmount == 100

\* Money is counted in cents: round(x, 2) keeps two decimals.
Cents == 100
\* Shares are counted in 1/24 share: every converted buy price of the price
\* tables below divides 24 * InvestmentAmount * Cents.
ShareUnit == 8 * 3

Frequencies == {"Daily", "Weekly", "Monthly"}
Currencies == {"USD", "EUR"}

\* ---------------------------------------------------------------- calendar

MonthDays == <<31, 28, 31, 30, 31, 30, 31, 31, 30, 31, 30, 31>>

RECURSIVE DaysBefore(_)
\* Number of days of the year before the first day of month m.
DaysBefore(m) == IF m = 1 THEN 0 ELSE DaysBefore(m - 1) + MonthDays[m - 1]

\* datetime.date.month of a day ordinal.
MonthOf(d) == CHOOSE m \in 1..12 : DaysBefore(m) < d /\ d <= DaysBefore(m) + MonthDays[m]
\* datetime.date.day of a day ordinal.
DayOf(d) == d - DaysBefore(MonthOf(d))

Min(S) == CHOOSE x \in S : \A y \in S : x <= y
Max(S) == CHOOSE x \in S : \A y \in S : x >= y

\* helper.update_investment_date: the next nominal date, one day, seven days
\* or one calendar month later (the day of the month is clamped to the length
\* of the next month).  Dates past December are capped at the year's end + 1.
UpdateInvestmentDate(d, frequency) ==
    CASE frequency = "Daily" -> d + 1
      [] frequency = "Weekly" -> d + 7
      [] OTHER ->
           IF MonthOf(d) = 12 THEN 366
           ELSE DaysBefore(MonthOf(d) + 1)
                  + (IF DayOf(d) <= MonthDays[MonthOf(d) + 1]
                     THEN DayOf(d) ELSE MonthDays[MonthOf(d) + 1])

\* ------------------------------------------------------------- market data

\* What yf.Ticker(ts).info answers for each text the user may enter: the
\* resolved symbol and its trading currency, or a dictionary of length 1.
TickerInfo(ts) ==
    CASE ts = "AAPL" -> [found |-> TRUE, symbol |-> "AAPL", currency |-> "USD"]
      [] ts = "aapl" -> [found |-> TRUE, symbol |-> "AAPL", currency |-> "USD"]
      [] ts = "SAP.DE" -> [found |-> TRUE, symbol |-> "SAP.DE", currency |-> "EUR"]
      [] OTHER -> [found |-> FALSE, symbol |-> "", currency |-> ""]

AllSymbols == {"AAPL", "SAP.DE"}

\* Rank of a symbol in Python's string order ("AAPL" < "SAP.DE").
SymbolRank(s) == IF s = "AAPL" THEN 1 ELSE 2

\* The texts the user may enter, comma separated, as the set the script makes
\* of them (line 113).
TickerInputs ==
    { {}, {"ZZZZ"}, {"AAPL"}, {"SAP.DE"}, {"aapl", "AAPL"}, {"AAPL", "ZZZZ"},
      {"AAPL", "SAP.DE"}, {"aapl", "AAPL", "SAP.DE"} }

\* Order in which "for ts in ticker_symbols" visits the set.
IterationOrder == <<"SAP.DE", "aapl", "ZZZZ", "AAPL">>

\* Days on which a market may be open inside the range: Jan 2, Jan 3, Jan 6
\* (Jan 4-5 is a weekend) and Feb 2.  yf.download leaves out its end date.
MarketDays == {d \in {2, 3, 6, 33} : DateStart <= d /\ d < DateEnd}

\* The days helper.today may be: the date picker allows no end date after
\* today (max_value=today), and its default end date is today.
Todays == {DateEnd, DateEnd + 2}

\* Open price of a record of the price series, in cents of the trading currency.
Open(s, d) ==
    IF s = "AAPL"
    THEN (CASE d = 2 -> 100 [] d = 3 -> 300 [] d = 6 -> 50 [] OTHER -> 100) * Cents
    ELSE (CASE d = 2 -> 50 [] d = 3 -> 100 [] d = 6 -> 150 [] OTHER -> 200) * Cents

\* Close price of a record, in cents of the trading currency.
Close(s, d) ==
    IF s = "AAPL"
    THEN (CASE d = 2 -> 110 [] d = 3 -> 100 [] d = 6 -> 70 [] OTHER -> 100) * Cents
    ELSE (CASE d = 2 -> 75 [] d = 3 -> 50 [] d = 6 -> 100 [] OTHER -> 150) * Cents

\* Dividend per share of a record, in cents of the trading currency.
Dividends(s, d) ==
    IF s = "AAPL"
    THEN (CASE d = 3 -> 100 [] d = 6 -> 25 [] OTHER -> 0)
    ELSE (IF d = 6 THEN 50 ELSE 0)

\* ------------------------------------------------------ currency collaborator

\* Reference rate of the collaborator: units of the currency per euro on a date.
Rate(currency, date) ==
    IF currency = "EUR" THEN 1 ELSE (IF date <= 3 THEN 2 ELSE 4)

\* CurrencyConverter.convert: amount / rate(currency) * rate(new_currency).
CurrConvConvert(amount, currency, new_currency, date) ==
    (amount * Rate(new_currency, date)) \div Rate(currency, date)

\* Python's round to an integer number of units of 1/den: nearest, ties to even.
RoundHalfEven(num, den) ==
    LET q == num \div den
        r == num % den
    IN  IF 2 * r < den THEN q
        ELSE IF 2 * r > den THEN q + 1
        ELSE IF q % 2 = 0 THEN q ELSE q + 1


\* -------------------------------------------------------------------- state

VARIABLES
    input_ticker_symbol,      \* the form's ticker texts, as the set of line 113
    investment_frequency,     \* the form's frequency
    base_currency,            \* the form's base currency
    market,                   \* what yf.download returns per symbol: its trading days
    today,                    \* helper.today: the day the server imported helper.py
    session_submitted,        \* st.session_state['submitted']: "absent", "True", "False"
    session_downloads,        \* st.session_state['dfs_downloads']: key -> trading days
    pc,                       \* position of the script: start, loop, tables, development,
                              \* aggregate, metrics, dividends, comparison, done
    renders,                  \* executions of the script so far
    symbols,                  \* the list symbols (one entry per resolved text)
    rows,                     \* the list rows of buy orders
    INVESTMENT_EXISTS,        \* the flag of line 152
    current_investment_date,  \* the nominal date of the scheduling loop
    dfs_downloads,            \* the local copy of line 194
    df_investments,           \* the transaction table
    df_development,           \* the development table
    df_grouped,               \* the '--OVERALL--' rows
    metric_results,           \* what calculate_development_metric returned per window
    dividends,                \* the dividend table
    data_lump_sum,            \* the lump-sum rows of each security
    df_lump_sum,              \* the aggregate rows of the lump-sum strategy
    messages,                 \* what st.write reported in this execution
    error,                    \* the exception that ended this execution, or "none"
    visited,                  \* history: nominal dates the loop has processed
    downloads,                \* history: yf.download calls per symbol in the session
    conv_calls,               \* history: CurrencyConverter.convert calls of this execution
    investment_day,           \* is_investment_day_valid: the day of the month asked for
    date_start,               \* is_investment_day_valid: the start date
    date_end,                 \* is_investment_day_valid: the end date
    potential_start_date,     \* is_investment_day_valid: the candidate date
    is_date_correct,          \* is_investment_day_valid: the candidate lies in the range
    day_pc,                   \* is_investment_day_valid: idle, while, return
    pressed                   \* history: CONFIRM CHOICES was pressed in some execution

vars == <<input_ticker_symbol, investment_frequency, base_currency, market,
          session_submitted, pressed, session_downloads, pc, renders, symbols, rows,
          INVESTMENT_EXISTS, current_investment_date, dfs_downloads,
          df_investments, df_development, df_grouped, messages, error,
          visited, downloads, conv_calls, today, metric_results, dividends,
          data_lump_sum, df_lump_sum, investment_day, date_start, date_end,
          potential_start_date, is_date_correct, day_pc>>

\* The variables of the page script.
page == <<input_ticker_symbol, investment_frequency, base_currency, market,
          session_submitted, pressed, session_downloads, pc, renders, symbols, rows,
          INVESTMENT_EXISTS, current_investment_date, dfs_downloads,
          df_investments, df_development, df_grouped, messages, error,
          visited, downloads, conv_calls, today, metric_results, dividends,
          data_lump_sum, df_lump_sum>>

\* The variables of a call of helper.is_investment_day_valid.
scheduler == <<investment_day, date_start, date_end, potential_start_date,
               is_date_correct, day_pc>>

inputs == <<input_ticker_symbol, investment_frequency, base_currency, market, today>>

\* What the sections after the aggregate rows produce.
outputs == <<metric_results, dividends, data_lump_sum, df_lump_sum>>

\* The symbols the entered texts resolve to.
ResolvedSymbols(entered) ==
    {TickerInfo(ts).symbol : ts \in {t \in entered : TickerInfo(t).found}}

\* Cache key of line 170.
Key(symbol) ==
    <<symbol, DateStart, DateEnd, investment_frequency, InvestmentAmount>>

\* yf.download(tickers=symbol, start=date_start, end=date_end): the index of
\* the returned frame.
Download(symbol) == market[symbol]

\* Lines 115-139: the list symbols, one entry per entered text that resolves.
RECURSIVE ResolveTickers(_, _)
ResolveTickers(entered, i) ==
    IF i > Len(IterationOrder) THEN <<>>
    ELSE LET ts == IterationOrder[i]
         IN  IF ts \in entered /\ TickerInfo(ts).found
             THEN <<TickerInfo(ts).symbol>> \o ResolveTickers(entered, i + 1)
             ELSE ResolveTickers(entered, i + 1)

\* Insert a symbol into a list sorted by string order, after its equals.
RECURSIVE InsertSymbol(_, _)
InsertSymbol(sorted, s) ==
    IF sorted = <<>> THEN <<s>>
    ELSE IF SymbolRank(s) < SymbolRank(Head(sorted))
         THEN <<s>> \o sorted
         ELSE <<Head(sorted)>> \o InsertSymbol(Tail(sorted), s)

\* sorted(symbols) of line 167.
RECURSIVE SortedSymbols(_)
SortedSymbols(syms) ==
    IF syms = <<>> THEN <<>>
    ELSE InsertSymbol(SortedSymbols(SubSeq(syms, 1, Len(syms) - 1)), syms[Len(syms)])

\* Faulty variant of LoopCondition: the end date itself is left out.
LoopConditionBeforeEnd(date) == date < DateEnd

\* Line 166: while current_investment_date <= date_end.
LoopCondition(date) == date <= DateEnd

\* Line 200: the market is open on the nominal date.
IsMarketOpen(market_open_dates, date) == date \in market_open_dates

\* Faulty variant of FutureDates: every trading day other than the nominal
\* date counts as a future day.
FutureDatesOtherDays(market_open_dates, date) == market_open_dates \ {date}

\* Line 212: the trading days after the nominal date.
FutureDates(market_open_dates, date) == {t \in market_open_dates : t > date}

\* Faulty variant of NextMarketOpen: the last future record (.iloc[-1]).
NextMarketOpenLast(future_dates) == Max(future_dates)

\* Lines 224-227: the first record of the future records (the index is ordered).
NextMarketOpen(future_dates) == Min(future_dates)

\* Lines 230-240: the buy price in the base currency, and whether the
\* collaborator was called for it.
ConvertBuyPrice(buy_price_original, currency_security, base, date) ==
    IF currency_security = base
    THEN [amount |-> buy_price_original, called |-> FALSE]
    ELSE [amount |-> CurrConvConvert(buy_price_original, currency_security, base, date),
          called |-> TRUE]

\* Line 243: investment_amount / buy_price_converted, in 1/ShareUnit share.
SharesBought(buy_price_converted) ==
    (ShareUnit * InvestmentAmount * Cents) \div buy_price_converted

\* Lines 167-254: the body of "for symbol in sorted(symbols)" for one symbol.
\* st holds what the loop carries; st.brk is set by the break of line 221.
ProcessSymbol(st, symbol, date) ==
    LET key == Key(symbol)
        miss == key \notin DOMAIN st.cache
        df_security == Download(symbol)
        dl == IF miss THEN [st.dl EXCEPT ![symbol] = @ + 1] ELSE st.dl
    IN  IF miss /\ df_security = {}
        THEN [st EXCEPT !.dl = dl,
                        !.msgs = @ \cup {[kind |-> "no_price_data",
                                          symbol |-> symbol, date |-> date]}]
        ELSE
          LET cache == IF miss THEN st.cache @@ (key :> df_security) ELSE st.cache
              market_open_dates == cache[key]
              future_dates == FutureDates(market_open_dates, date)
          IN  IF ~IsMarketOpen(market_open_dates, date) /\ future_dates = {}
              THEN [st EXCEPT !.dl = dl, !.cache = cache, !.local = cache,
                              !.brk = TRUE,
                              !.msgs = @ \cup {[kind |-> "no_market_data",
                                                symbol |-> symbol, date |-> date]}]
              ELSE
                LET actual_investment_date ==
                        IF IsMarketOpen(market_open_dates, date) THEN date
                        ELSE NextMarketOpen(future_dates)
                    buy_price_original == Open(symbol, actual_investment_date)
                    currency_security == TickerInfo(symbol).currency
                    conv == ConvertBuyPrice(buy_price_original, currency_security,
                                            base_currency, actual_investment_date)
                    row == [date |-> actual_investment_date,
                            symbol |-> symbol,
                            currency |-> currency_security,
                            shares |-> SharesBought(conv.amount),
                            price_original |-> buy_price_original,
                            price_converted |-> conv.amount,
                            capital |-> InvestmentAmount * Cents,
                            nominal |-> date]
                IN  [st EXCEPT !.dl = dl, !.cache = cache, !.local = cache,
                               !.exists = TRUE,
                               !.rows = Append(@, row),
                               !.calls = IF conv.called
                                         THEN @ \cup {[site |-> "buy",
                                                       currency |-> currency_security,
                                                       new_currency |-> base_currency]}
                                         ELSE @]

\* Line 167: the for loop over the sorted symbols of one nominal date.
RECURSIVE ForSymbols(_, _, _, _)
ForSymbols(st, syms, i, date) ==
    IF i > Len(syms) \/ st.brk THEN st
    ELSE ForSymbols(ProcessSymbol(st, syms[i], date), syms, i + 1, date)

EmptyFunction == [x \in {} |-> {}]


\* ------------------------------------------------------- tables (lines 296-407)

\* Sum of a list of integers (pandas Series.sum).
RECURSIVE Sum(_)
Sum(seq) == IF seq = <<>> THEN 0 ELSE Head(seq) + Sum(Tail(seq))

\* Order of sort_values(['Date', 'Symbol']) and sort_values(['Purchase Date', 'Symbol']).
DateSymbolLess(a, b) ==
    \/ a.date < b.date
    \/ a.date = b.date /\ SymbolRank(a.symbol) < SymbolRank(b.symbol)

\* Insert a row into a frame sorted by date and symbol, after its equals.
RECURSIVE InsertRow(_, _)
InsertRow(sorted, r) ==
    IF sorted = <<>> THEN <<r>>
    ELSE IF DateSymbolLess(r, Head(sorted))
         THEN <<r>> \o sorted
         ELSE <<Head(sorted)>> \o InsertRow(Tail(sorted), r)

\* DataFrame.sort_values by date and symbol.
RECURSIVE SortValues(_)
SortValues(df) ==
    IF df = <<>> THEN <<>>
    ELSE InsertRow(SortValues(SubSeq(df, 1, Len(df) - 1)), df[Len(df)])

\* Line 313: drop_duplicates(['Purchase Date', 'Symbol']) keeps, of the rows
\* with one purchase date and symbol, the first.
RECURSIVE DropDuplicates(_)
DropDuplicates(df) ==
    IF df = <<>> THEN <<>>
    ELSE LET init == DropDuplicates(SubSeq(df, 1, Len(df) - 1))
             last == df[Len(df)]
         IN  IF \E i \in 1..Len(init) :
                    init[i].date = last.date /\ init[i].symbol = last.symbol
             THEN init
             ELSE Append(init, last)

\* Lines 310-318: the transaction table made of the list rows.
MakeInvestments(rws, frequency) ==
    SortValues(IF frequency = "Daily" THEN DropDuplicates(rws) ELSE rws)

\* Lines 330-350: the current share price (the last close of the series, and
\* its conversion at the end date), the current value, gain and return of
\* each transaction.  Values are in 1/ShareUnit cent, the return a fraction.
WithCurrentValue(t, downloaded) ==
    LET last_day == Max(downloaded[Key(t.symbol)])
        current_original == Close(t.symbol, last_day)
        current == CurrConvConvert(current_original, t.currency, base_currency, DateEnd)
        value == t.shares * current
        gain == value - InvestmentAmount * Cents * ShareUnit
    IN  [date |-> t.date, symbol |-> t.symbol, currency |-> t.currency,
         shares |-> t.shares, price_original |-> t.price_original,
         price_converted |-> t.price_converted, capital |-> t.capital,
         nominal |-> t.nominal,
         current_price_original |-> current_original,
         current_price |-> current,
         current_value |-> value,
         gain |-> gain,
         roi |-> [num |-> gain * 100, den |-> InvestmentAmount * Cents * ShareUnit]]

\* Faulty variant of PastData: transactions of the row's own date are left out.
PastDataStrictlyBefore(row, df_inv) ==
    SelectSeq(df_inv, LAMBDA t : t.date < row.date /\ t.symbol = row.symbol)

\* Faulty variant of PastData: the symbol filter of line 67 is left out.
PastDataAnySymbol(row, df_inv) ==
    SelectSeq(df_inv, LAMBDA t : t.date <= row.date)

\* helper.get_values_to_date, lines 66-68: the transactions of the row's
\* symbol bought on or before the row's date.
PastData(row, df_inv) ==
    SelectSeq(df_inv, LAMBDA t : t.date <= row.date /\ t.symbol = row.symbol)

\* helper.get_values_to_date, line 71: shares owned up to the row's date.
NumSharesToDate(past_data) ==
    Sum([i \in 1..Len(past_data) |-> past_data[i].shares])

\* helper.get_values_to_date, line 72: capital invested up to the row's date,
\* rounded to cents.
InvestedCapitalToDate(past_data) ==
    RoundHalfEven(Sum([i \in 1..Len(past_data) |-> past_data[i].capital]), 1)

\* Faulty variant of InvestmentValueToDate: the value is cut to whole cents
\* instead of rounded.
InvestmentValueTruncated(num_shares_to_date, close_price_converted) ==
    (num_shares_to_date * close_price_converted) \div ShareUnit

\* helper.get_values_to_date, line 81: shares times converted close, rounded
\* to cents.
InvestmentValueToDate(num_shares_to_date, close_price_converted) ==
    RoundHalfEven(num_shares_to_date * close_price_converted, ShareUnit)

\* helper.get_values_to_date, line 83: the return in percent, rounded to two
\* decimals (in hundredths of a percent).
ProfitToDate(unrealised_gain_or_loss, invested_capital_to_date) ==
    RoundHalfEven(unrealised_gain_or_loss * 100 * 100, invested_capital_to_date)

\* helper.get_values_to_date: the development row of one record of a price
\* series.  Without a transaction on or before the row's date, .iloc[0] of
\* line 76 raises IndexError.
GetValuesToDate(row, df_inv, base) ==
    LET past_data == PastData(row, df_inv)
    IN  IF past_data = <<>>
        THEN [error |-> "IndexError", date |-> row.date, symbol |-> row.symbol]
        ELSE
          LET num_shares_to_date == NumSharesToDate(past_data)
              invested_capital_to_date == InvestedCapitalToDate(past_data)
              close_price_converted ==
                  CurrConvConvert(row.close, past_data[1].currency, base, row.date)
              investment_value_to_date ==
                  InvestmentValueToDate(num_shares_to_date, close_price_converted)
              unrealised_gain_or_loss ==
                  investment_value_to_date - invested_capital_to_date
          IN  [error |-> "none", date |-> row.date, symbol |-> row.symbol,
               open |-> row.open, close |-> row.close, dividends |-> row.dividends,
               currency |-> past_data[1].currency,
               close_converted |-> close_price_converted,
               shares |-> num_shares_to_date,
               capital |-> invested_capital_to_date,
               value |-> investment_value_to_date,
               gain |-> unrealised_gain_or_loss,
               roi |-> ProfitToDate(unrealised_gain_or_loss, invested_capital_to_date)]

\* A set of dates as the ascending list of its elements.
RECURSIVE Ascending(_)
Ascending(S) ==
    IF S = {} THEN <<>> ELSE <<Min(S)>> \o Ascending(S \ {Min(S)})

\* Lines 371-374: the records of one downloaded series, with the symbol.
SeriesRows(symbol, days) ==
    LET ds == Ascending(days)
    IN  [i \in 1..Len(ds) |->
            [date |-> ds[i], symbol |-> symbol, open |-> Open(symbol, ds[i]),
             close |-> Close(symbol, ds[i]), dividends |-> Dividends(symbol, ds[i])]]

\* Lines 367-377: the series of every entry of the list symbols, concatenated.
RECURSIVE ConcatSeries(_, _, _)
ConcatSeries(syms, i, downloaded) ==
    IF i > Len(syms) THEN <<>>
    ELSE SeriesRows(syms[i], downloaded[Key(syms[i])])
             \o ConcatSeries(syms, i + 1, downloaded)

\* Faulty variant of DatesWithAllSymbols: every date that has a development row.
DatesWithAnySymbol(df_dev, num_securities_invested) ==
    {df_dev[i].date : i \in 1..Len(df_dev)}

\* Lines 397-399: the dates that have as many development rows as there are
\* invested securities.
DatesWithAllSymbols(df_dev, num_securities_invested) ==
    {d \in {df_dev[i].date : i \in 1..Len(df_dev)} :
        Cardinality({i \in 1..Len(df_dev) : df_dev[i].date = d}) = num_securities_invested}

\* Lines 404-407: the '--OVERALL--' row of one date: the sums of its rows, and
\* the return of the sums (not rounded).
GroupedRow(df_dev, d) ==
    LET of_date == SelectSeq(df_dev, LAMBDA r : r.date = d)
        capital == Sum([i \in 1..Len(of_date) |-> of_date[i].capital])
        value == Sum([i \in 1..Len(of_date) |-> of_date[i].value])
        gain == Sum([i \in 1..Len(of_date) |-> of_date[i].gain])
    IN  [date |-> d, symbol |-> "--OVERALL--", capital |-> capital,
         value |-> value, gain |-> gain,
         roi |-> [num |-> gain * 100, den |-> capital]]

\* Lines 396-407: df_grouped, one row per date that has all symbols.
MakeGrouped(df_dev, num_securities_invested) ==
    LET ds == Ascending(DatesWithAllSymbols(df_dev, num_securities_invested))
    IN  [i \in 1..Len(ds) |-> GroupedRow(df_dev, ds[i])]

\* ------------------------------------------- metrics (helper.py lines 86-130)

\* The windows of line 410, in the order the script shows them.
Metrics == <<"1D", "1W", "1M", "6M", "YTD", "1Y", "5Y", "MAX">>

\* date - relativedelta(months=n) for n < 12: the same day of the month n
\* months earlier, clamped to the length of that month.  A date of the
\* previous year is a day ordinal below 1.
MinusMonths(d, n) ==
    LET m == MonthOf(d) - n
        month == IF m >= 1 THEN m ELSE m + 12
        day == IF DayOf(d) <= MonthDays[month] THEN DayOf(d) ELSE MonthDays[month]
    IN  DaysBefore(month) + day - (IF m >= 1 THEN 0 ELSE 365)

\* helper.calculate_development_metric, lines 104-115: last_dates[metric].
LastDates(metric, now, min_date) ==
    CASE metric = "1D" -> now - 1
      [] metric = "1W" -> now - 7
      [] metric = "1M" -> MinusMonths(now, 1)
      [] metric = "6M" -> MinusMonths(now, 6)
      [] metric = "YTD" -> Max({DaysBefore(1) + 1, min_date})
      [] metric = "1Y" -> now - 365
      [] metric = "5Y" -> now - 5 * 365 - 1
      [] OTHER -> min_date

RECURSIVE GCD(_, _)
\* Greatest common divisor of two naturals.
GCD(a, b) == IF b = 0 THEN a ELSE GCD(b, a % b)

\* A fraction in lowest terms with a positive denominator.
Normalise(f) ==
    LET a == IF f.num < 0 THEN -f.num ELSE f.num
        g == GCD(a, f.den)
    IN  [num |-> f.num \div g, den |-> f.den \div g]

\* The fraction times a natural number, in lowest terms.
Times(f, c) ==
    LET g == GCD(c, f.den)
    IN  Normalise([num |-> f.num * (c \div g), den |-> f.den \div g])

\* The difference of two percentages, formatted by f'{pct_change:.2f}%': in
\* hundredths of a percent.
PctChange(newest_profit, last_date_profit) ==
    LET a == Times(Normalise(newest_profit), 100)
        b == Times(Normalise(last_date_profit), 100)
    IN  RoundHalfEven(a.num * b.den - b.num * a.den, a.den * b.den)

\* helper.calculate_development_metric.  df is the aggregate table, ordered
\* by date.  min() of an empty column is NaN, and max() of a date and NaN at
\* line 109 raises TypeError.  The gain is formatted with a sign and two
\* decimals (cents), the sentinel is ('-', '-').
CalculateDevelopmentMetric(metric, df, now) ==
    IF df = <<>>
    THEN [error |-> "TypeError", na |-> FALSE, sign |-> "", gain |-> 0, pct |-> 0]
    ELSE
      LET min_date == Min({df[i].date : i \in 1..Len(df)})
          last_date == LastDates(metric, now, min_date)
          df_before_date == SelectSeq(df, LAMBDA r : r.date <= last_date)
      IN  IF Len(df_before_date) = 0
          THEN [error |-> "none", na |-> TRUE, sign |-> "", gain |-> 0, pct |-> 0]
          ELSE
            LET last_date_gain == df_before_date[Len(df_before_date)].gain
                newest_gain == df[Len(df)].gain
                last_date_profit == df_before_date[Len(df_before_date)].roi
                newest_profit == df[Len(df)].roi
                gain_or_loss_change == newest_gain - last_date_gain
            IN  [error |-> "none", na |-> FALSE,
                 sign |-> IF gain_or_loss_change >= 0 THEN "+" ELSE "",
                 gain |-> gain_or_loss_change,
                 pct |-> PctChange(newest_profit, last_date_profit)]

\* ------------------------------------------------ dividends (lines 540-577)

\* helper.convert_dividends: the original currency of the row's symbol (of
\* its first transaction) and the dividend per share in the base currency,
\* rounded to cents.
ConvertDividends(row, base, df_inv) ==
    LET same_symbol == SelectSeq(df_inv, LAMBDA t : t.symbol = row.symbol)
        original_currency == same_symbol[1].currency
    IN  [original_currency |-> original_currency,
         dividend_converted |->
             RoundHalfEven(row.dividends * Rate(base, row.date),
                           Rate(original_currency, row.date))]

\* Line 541: the record has a dividend.
IsDividend(row) == row.dividends # 0

\* Lines 551-577: the dividend table: one row per development row with a
\* dividend; the income is the converted dividend per share times the shares
\* to date, rounded to cents.
MakeDividends(df_dev, base, df_inv) ==
    LET with_dividend == SelectSeq(df_dev, IsDividend)
    IN  [i \in 1..Len(with_dividend) |->
            LET row == with_dividend[i]
                conv == ConvertDividends(row, base, df_inv)
            IN  [date |-> row.date, symbol |-> row.symbol, shares |-> row.shares,
                 dividend_original |-> row.dividends,
                 currency |-> conv.original_currency,
                 dividend_converted |-> conv.dividend_converted,
                 income |-> RoundHalfEven(conv.dividend_converted * row.shares,
                                          ShareUnit)]]

\* ------------------------------------- DCA against lump sum (lines 593-643)

\* Sum of two fractions, in lowest terms.
Plus(f, g) ==
    Normalise([num |-> f.num * g.den + g.num * f.den, den |-> f.den * g.den])

\* Sum of a list of fractions.
RECURSIVE SumFractions(_)
SumFractions(seq) ==
    IF seq = <<>> THEN [num |-> 0, den |-> 1]
    ELSE Plus(Head(seq), SumFractions(Tail(seq)))

\* Line 594: the columns shown of the DCA and lump-sum tables are those of
\* the base currency USD.
ColsOfInterestExist(base) == base = "USD"

\* Faulty variant of LumpSum: the invested capital of the first aggregate row.
LumpSumOfFirstRow(df_dca) == df_dca[1].capital

\* Line 615: the invested capital of the last aggregate row of DCA.
LumpSum(df_dca) == df_dca[Len(df_dca)].capital

\* Lines 620-626: the lump-sum row of one development row: the shares bought
\* with the security's part of the lump sum at the open of the first record
\* of its series, and their value at the row's close.  Money is a fraction
\* of cents, shares a fraction of a share.
LumpSumRow(r, df_dev, lump_sum, num_securities_invested) ==
    LET data == SelectSeq(df_dev, LAMBDA x : x.symbol = r.symbol)
        lump_sum_per_security ==
            Normalise([num |-> lump_sum, den |-> num_securities_invested])
        shares == Normalise([num |-> lump_sum, den |-> num_securities_invested * data[1].open])
        value == Times(shares, r.close)
    IN  [date |-> r.date, symbol |-> r.symbol, open |-> r.open, close |-> r.close,
         shares |-> shares,
         capital |-> lump_sum_per_security,
         value |-> value,
         gain |-> Plus(value, [num |-> -lump_sum_per_security.num,
                               den |-> lump_sum_per_security.den])]

\* Lines 639-642: the aggregate lump-sum row of one date: the sums of its
\* rows and the return of the sums in percent.
LumpSumGroupedRow(data, d) ==
    LET of_date == SelectSeq(data, LAMBDA r : r.date = d)
        capital == SumFractions([i \in 1..Len(of_date) |-> of_date[i].capital])
        value == SumFractions([i \in 1..Len(of_date) |-> of_date[i].value])
        gain == SumFractions([i \in 1..Len(of_date) |-> of_date[i].gain])
    IN  [date |-> d, symbol |-> "--OVERALL--", capital |-> capital,
         value |-> value, gain |-> gain,
         roi |-> Normalise([num |-> gain.num * capital.den * 100,
                            den |-> gain.den * capital.num])]

\* Lines 631-642: df_lump_sum, one row per date that has all symbols.
MakeLumpSum(data, num_securities_invested) ==
    LET ds == Ascending(DatesWithAllSymbols(data, num_securities_invested))
    IN  [i \in 1..Len(ds) |-> LumpSumGroupedRow(data, ds[i])]

\* -------------------------------------------------------------------- Init

\* No call of helper.is_investment_day_valid is in progress.
SchedulerIdle ==
    /\ investment_day = 1
    /\ date_start = 1
    /\ date_end = 1
    /\ potential_start_date = 1
    /\ is_date_correct = FALSE
    /\ day_pc = "idle"

\* The state of the session before the first execution of the script.
PageStart ==
    /\ session_submitted = "absent"
    /\ pressed = FALSE
    /\ session_downloads = EmptyFunction
    /\ pc = "start"
    /\ renders = 0
    /\ symbols = <<>>
    /\ rows = <<>>
    /\ INVESTMENT_EXISTS = FALSE
    /\ current_investment_date = DateStart
    /\ dfs_downloads = EmptyFunction
    /\ df_investments = <<>>
    /\ df_development = <<>>
    /\ df_grouped = <<>>
    /\ metric_results = EmptyFunction
    /\ dividends = <<>>
    /\ data_lump_sum = <<>>
    /\ df_lump_sum = <<>>
    /\ messages = {}
    /\ error = "none"
    /\ visited = {}
    /\ downloads = [s \in AllSymbols |-> 0]
    /\ conv_calls = {}

Init ==
    /\ SchedulerIdle
    /\ input_ticker_symbol \in TickerInputs
    /\ investment_frequency \in Frequencies
    /\ base_currency \in Currencies
    /\ market \in [AllSymbols -> SUBSET MarketDays]
    /\ \A s \in AllSymbols \ ResolvedSymbols(input_ticker_symbol) : market[s] = {}
    /\ today \in Todays
    /\ PageStart

\* ----------------------------------------------------------------- actions

\* Lines 93-164: one execution of the script up to the scheduling loop.  The
\* form button reports submitted; the session keeps the first value it saw.
Render(submitted) ==
    /\ pc \in {"start", "done"}
    /\ renders < MaxRenders
    /\ renders' = renders + 1
    /\ pressed' = (pressed \/ submitted)
    /\ session_submitted' =
           IF session_submitted = "absent"
           THEN (IF submitted THEN "True" ELSE "False")
           ELSE session_submitted
    /\ rows' = <<>>
    /\ INVESTMENT_EXISTS' = FALSE
    /\ current_investment_date' = DateStart
    /\ dfs_downloads' = EmptyFunction
    /\ df_investments' = <<>>
    /\ df_development' = <<>>
    /\ df_grouped' = <<>>
    /\ metric_results' = EmptyFunction
    /\ dividends' = <<>>
    /\ data_lump_sum' = <<>>
    /\ df_lump_sum' = <<>>
    /\ error' = "none"
    /\ visited' = {}
    /\ conv_calls' = {}
    /\ IF session_submitted' # "True"
       THEN /\ pc' = "done"
            /\ symbols' = <<>>
            /\ messages' = {}
       ELSE IF input_ticker_symbol = {}
       THEN /\ pc' = "done"
            /\ symbols' = <<>>
            /\ messages' = {[kind |-> "enter_ticker", symbol |-> "", date |-> 0]}
       ELSE /\ symbols' = ResolveTickers(input_ticker_symbol, 1)
            /\ LET not_found == {[kind |-> "not_found", symbol |-> ts, date |-> 0] :
                                    ts \in {t \in input_ticker_symbol : ~TickerInfo(t).found}}
               IN  IF Len(symbols') = 0
                   THEN /\ pc' = "done"
                        /\ messages' = not_found \cup
                               {[kind |-> "no_symbols", symbol |-> "", date |-> 0]}
                   ELSE /\ pc' = "loop"
                        /\ messages' = not_found
    /\ UNCHANGED <<scheduler, inputs, session_downloads, downloads>>

\* Lines 166-261: one iteration of the while loop: every symbol of the sorted
\* list at the current nominal date, then the next nominal date.
ProcessDate ==
    /\ pc = "loop"
    /\ LoopCondition(current_investment_date)
    /\ LET st0 == [rows |-> rows, cache |-> session_downloads,
                   local |-> dfs_downloads, exists |-> INVESTMENT_EXISTS,
                   msgs |-> messages, dl |-> downloads, calls |-> conv_calls,
                   brk |-> FALSE]
           st == ForSymbols(st0, SortedSymbols(symbols), 1, current_investment_date)
       IN  /\ rows' = st.rows
           /\ session_downloads' = st.cache
           /\ dfs_downloads' = st.local
           /\ INVESTMENT_EXISTS' = st.exists
           /\ messages' = st.msgs
           /\ downloads' = st.dl
           /\ conv_calls' = st.calls
    /\ visited' = visited \cup {current_investment_date}
    /\ current_investment_date' =
           UpdateInvestmentDate(current_investment_date, investment_frequency)
    /\ UNCHANGED <<scheduler, inputs, outputs, session_submitted, pressed, pc, renders, symbols,
                   df_investments, df_development, df_grouped, error>>

\* Lines 166 and 263-275: the loop ends; without any buy order the script
\* reports it and stops.
EndLoop ==
    /\ pc = "loop"
    /\ ~LoopCondition(current_investment_date)
    /\ IF ~INVESTMENT_EXISTS
       THEN /\ pc' = "done"
            /\ messages' = messages \cup
                   {[kind |-> "no_investments", symbol |-> "", date |-> 0]}
       ELSE /\ pc' = "tables"
            /\ messages' = messages
    /\ UNCHANGED <<scheduler, inputs, outputs, session_submitted, pressed, session_downloads, renders, symbols,
                   rows, INVESTMENT_EXISTS, current_investment_date, dfs_downloads,
                   df_investments, df_development, df_grouped, error, visited,
                   downloads, conv_calls>>

\* Lines 296-350: the transaction table and the current value of each
\* transaction; the table is shown at line 326.
ShowTransactions ==
    /\ pc = "tables"
    /\ pc' = "development"
    /\ LET investments == MakeInvestments(rows, investment_frequency)
       IN  df_investments' = [i \in 1..Len(investments) |->
                                 WithCurrentValue(investments[i], dfs_downloads)]
    /\ conv_calls' = conv_calls \cup
           {[site |-> "current", currency |-> rows[i].currency,
             new_currency |-> base_currency] : i \in 1..Len(rows)}
    /\ UNCHANGED <<scheduler, inputs, outputs, session_submitted, pressed, session_downloads, renders, symbols,
                   rows, INVESTMENT_EXISTS, current_investment_date, dfs_downloads,
                   df_development, df_grouped, messages, error, visited, downloads>>

\* Lines 366-394: the development table.  A symbol of the list symbols
\* without a downloaded series raises KeyError at line 371; a record without
\* an earlier transaction raises IndexError in helper.get_values_to_date.
BuildDevelopment ==
    /\ pc = "development"
    /\ IF \E i \in 1..Len(symbols) : Key(symbols[i]) \notin DOMAIN dfs_downloads
       THEN /\ error' = "KeyError"
            /\ pc' = "done"
            /\ df_development' = <<>>
            /\ conv_calls' = conv_calls
       ELSE LET data == SortValues(ConcatSeries(symbols, 1, dfs_downloads))
                dev == [i \in 1..Len(data) |->
                           GetValuesToDate(data[i], df_investments, base_currency)]
            IN  IF \E i \in 1..Len(dev) : dev[i].error # "none"
                THEN /\ error' = "IndexError"
                     /\ pc' = "done"
                     /\ df_development' = <<>>
                     /\ conv_calls' = conv_calls
                ELSE /\ error' = "none"
                     /\ pc' = "aggregate"
                     /\ df_development' = dev
                     /\ conv_calls' = conv_calls \cup
                            {[site |-> "close", currency |-> dev[i].currency,
                              new_currency |-> base_currency] : i \in 1..Len(dev)}
    /\ UNCHANGED <<scheduler, inputs, outputs, session_submitted, pressed, session_downloads, renders, symbols,
                   rows, INVESTMENT_EXISTS, current_investment_date, dfs_downloads,
                   df_investments, df_grouped, messages, visited, downloads>>

\* Lines 396-407: the aggregate rows of the dates that have all symbols.
Aggregate ==
    /\ pc = "aggregate"
    /\ pc' = "metrics"
    /\ df_grouped' = MakeGrouped(df_development, Len(symbols))
    /\ UNCHANGED <<scheduler, inputs, outputs, session_submitted, pressed, session_downloads, renders, symbols,
                   rows, INVESTMENT_EXISTS, current_investment_date, dfs_downloads,
                   df_investments, df_development, messages, error, visited,
                   downloads, conv_calls>>

\* Lines 409-427: the eight period metrics of the aggregate rows.
ShowMetrics ==
    /\ pc = "metrics"
    /\ LET results == [i \in 1..Len(Metrics) |->
                          CalculateDevelopmentMetric(Metrics[i], df_grouped, today)]
       IN  IF \E i \in 1..Len(Metrics) : results[i].error # "none"
           THEN /\ error' = "TypeError"
                /\ pc' = "done"
                /\ metric_results' = EmptyFunction
           ELSE /\ error' = "none"
                /\ pc' = "dividends"
                /\ metric_results' =
                       [m \in {Metrics[i] : i \in 1..Len(Metrics)} |->
                           results[CHOOSE i \in 1..Len(Metrics) : Metrics[i] = m]]
    /\ UNCHANGED <<scheduler, inputs, dividends, data_lump_sum, df_lump_sum, session_submitted, pressed,
                   session_downloads, renders, symbols, rows, INVESTMENT_EXISTS,
                   current_investment_date, dfs_downloads, df_investments,
                   df_development, df_grouped, messages, visited, downloads,
                   conv_calls>>

\* Lines 538-591: the dividend table, or the report that there is none.
ShowDividends ==
    /\ pc = "dividends"
    /\ pc' = "comparison"
    /\ dividends' = MakeDividends(df_development, base_currency, df_investments)
    /\ messages' = IF dividends' = <<>>
                   THEN messages \cup {[kind |-> "no_dividends", symbol |-> "", date |-> 0]}
                   ELSE messages
    /\ conv_calls' = conv_calls \cup
           {[site |-> "dividend", currency |-> dividends'[i].currency,
             new_currency |-> base_currency] : i \in 1..Len(dividends')}
    /\ UNCHANGED <<scheduler, inputs, metric_results, data_lump_sum, df_lump_sum,
                   session_submitted, pressed, session_downloads, renders, symbols, rows,
                   INVESTMENT_EXISTS, current_investment_date, dfs_downloads,
                   df_investments, df_development, df_grouped, error, visited,
                   downloads>>

\* Lines 593-643: the DCA table and the lump-sum strategy.  The columns of
\* line 594 are missing from the tables of another base currency than USD:
\* df_dca[cols_of_interest] at line 610 raises KeyError.
Compare ==
    /\ pc = "comparison"
    /\ pc' = "done"
    /\ IF ~ColsOfInterestExist(base_currency)
       THEN /\ error' = "KeyError"
            /\ data_lump_sum' = <<>>
            /\ df_lump_sum' = <<>>
       ELSE /\ error' = "none"
            /\ data_lump_sum' =
                   [i \in 1..Len(df_development) |->
                       LumpSumRow(df_development[i], df_development,
                                  LumpSum(df_grouped), Len(symbols))]
            /\ df_lump_sum' = MakeLumpSum(data_lump_sum', Len(symbols))
    /\ UNCHANGED <<scheduler, inputs, metric_results, dividends, session_submitted, pressed,
                   session_downloads, renders, symbols, rows, INVESTMENT_EXISTS,
                   current_investment_date, dfs_downloads, df_investments,
                   df_development, df_grouped, messages, visited, downloads,
                   conv_calls>>

Next ==
    \/ \E submitted \in BOOLEAN : Render(submitted)
    \/ ProcessDate
    \/ EndLoop
    \/ ShowTransactions
    \/ BuildDevelopment
    \/ Aggregate
    \/ ShowMetrics
    \/ ShowDividends
    \/ Compare

Spec == Init /\ [][Next]_vars

\* ------------------------- helper.is_investment_day_valid (helper.py lines 14-46)

\* Faulty variant of PotentialStartDate: the investment day in the month
\* after the start date's.
PotentialStartDateNextMonth(day, start) == DaysBefore(MonthOf(start) + 1) + day

\* Lines 32-36: the investment day in the month of the start date.
PotentialStartDate(day, start) == DaysBefore(MonthOf(start)) + day

\* Faulty variant of IsDateCorrect: the start date is not compared.
IsDateCorrectBeforeEnd(start, potential, end) == potential <= end

\* Lines 39 and 44: date_start <= potential_start_date <= date_end.
IsDateCorrect(start, potential, end) == start <= potential /\ potential <= end

\* Line 43: date + relativedelta(months=1): the same day of the next month,
\* clamped to the length of that month.
PlusOneMonth(d) ==
    LET month == MonthOf(d) + 1
    IN  DaysBefore(month)
          + (IF DayOf(d) <= MonthDays[month] THEN DayOf(d) ELSE MonthDays[month])

\* The arguments of a call: an investment day 1..28, a start date and an end
\* date not before it.  The rest of the session is not involved.
InitDay ==
    /\ investment_day \in 1..28
    /\ date_start \in 1..DayMaxStart
    /\ date_end \in date_start..DayMaxEnd
    /\ potential_start_date = 1
    /\ is_date_correct = FALSE
    /\ day_pc = "idle"
    /\ input_ticker_symbol = {}
    /\ investment_frequency = "Monthly"
    /\ base_currency = "USD"
    /\ market = [s \in AllSymbols |-> {}]
    /\ today = DateEnd
    /\ PageStart

\* Lines 32-39: the first candidate and whether it lies in the range.
DayCall ==
    /\ day_pc = "idle"
    /\ potential_start_date' = PotentialStartDate(investment_day, date_start)
    /\ is_date_correct' = IsDateCorrect(date_start, potential_start_date', date_end)
    /\ day_pc' = "while"
    /\ UNCHANGED <<page, investment_day, date_start, date_end>>

\* Lines 42-44: one iteration of the while loop.
DayNextMonth ==
    /\ day_pc = "while"
    /\ ~is_date_correct /\ potential_start_date <= date_end
    /\ potential_start_date' = PlusOneMonth(potential_start_date)
    /\ is_date_correct' = IsDateCorrect(date_start, potential_start_date', date_end)
    /\ UNCHANGED <<page, investment_day, date_start, date_end, day_pc>>

\* Lines 42 and 46: the loop ends and the function returns
\* (is_date_correct, potential_start_date).
DayReturn ==
    /\ day_pc = "while"
    /\ ~(~is_date_correct /\ potential_start_date <= date_end)
    /\ day_pc' = "return"
    /\ UNCHANGED <<page, investment_day, date_start, date_end,
                   potential_start_date, is_date_correct>>

NextDay ==
    \/ DayCall
    \/ DayNextMonth
    \/ DayReturn

SpecDay == InitDay /\ [][NextDay]_vars

\* ------------------------------------------------------------------ claims

\* The securities of this execution: the distinct entries of the list symbols.
InvestedSymbols == {symbols[i] : i \in 1..Len(symbols)}

\* A trading day of the symbol's series lies at or after the date.
Resolvable(s, d) == \E t \in market[s] : t >= d

\* The list rows holds a buy order of the symbol for the nominal date.
Recorded(s, d) == \E k \in 1..Len(rows) : rows[k].nominal = d /\ rows[k].symbol = s

\* C1: for every nominal date the loop has processed and every security whose
\* series has a trading day at or after that date, a buy order of that
\* security for that nominal date is recorded, whatever happened to the other
\* securities of that date.
C1_EveryResolvablePairRecorded ==
    \A d \in visited : \A s \in InvestedSymbols :
        Resolvable(s, d) => Recorded(s, d)

\* C2: a buy order whose nominal date is a trading day of its series is
\* executed on that day at that day's open; any other buy order is executed
\* on the earliest trading day after its nominal date, at that day's open.
C2_ExecutionResolution ==
    \A k \in 1..Len(rows) :
        LET r == rows[k]
            days == market[r.symbol]
            later == {t \in days : t > r.nominal}
        IN  IF r.nominal \in days
            THEN r.date = r.nominal /\ r.price_original = Open(r.symbol, r.nominal)
            ELSE /\ later # {}
                 /\ r.date \in later
                 /\ \A t \in later : r.date <= t
                 /\ r.price_original = Open(r.symbol, r.date)

\* C2 witness: the spec's example: trading days Jan 2, Jan 3, Jan 6 and more,
\* nominal date Jan 4, executed on Jan 6 at Jan 6's open; another order was
\* executed on its own nominal date.
C2_Witness ==
    /\ \E k \in 1..Len(rows) :
          /\ rows[k].nominal = 4 /\ rows[k].date = 6
          /\ {2, 3, 6, 33} \subseteq market[rows[k].symbol]
          /\ rows[k].price_original = Open(rows[k].symbol, 6)
    /\ \E k \in 1..Len(rows) : rows[k].nominal = 2 /\ rows[k].date = 2

\* C3: every transaction, in the list rows and in the transaction table, is
\* executed on or after its nominal date on a day of its own security's
\* series; a nominal date without a trading day at or after it gives no
\* transaction for that security, only a warning, and no exception ends the
\* scheduling loop.
C3_LedgerInvariant ==
    /\ \A k \in 1..Len(rows) :
          rows[k].date >= rows[k].nominal /\ rows[k].date \in market[rows[k].symbol]
    /\ \A k \in 1..Len(df_investments) :
          /\ df_investments[k].date >= df_investments[k].nominal
          /\ df_investments[k].date \in market[df_investments[k].symbol]
    /\ \A d \in visited : \A s \in InvestedSymbols :
          ~Resolvable(s, d) => ~Recorded(s, d)
    /\ \A m \in messages :
          m.kind = "no_market_data" => ~Resolvable(m.symbol, m.date) /\ ~Recorded(m.symbol, m.date)
    /\ pc \in {"loop", "tables"} => error = "none"

\* C3 witness: the transaction table is made, one of its transactions rolled
\* forward, and a later nominal date of the same security found no trading
\* day and was reported.
C3_Witness ==
    /\ pc = "done"
    /\ \E k \in 1..Len(df_investments) :
          /\ df_investments[k].date > df_investments[k].nominal
          /\ \E m \in messages :
                m.kind = "no_market_data" /\ m.symbol = df_investments[k].symbol

\* C4: the transaction table holds at most one transaction per execution date
\* and symbol, for every frequency (stated for runs whose entered texts
\* resolve to distinct symbols, so that two transactions of one date and
\* symbol come from two nominal dates).
C4_OnePerDateAndSymbol ==
    Cardinality(InvestedSymbols) = Len(symbols) =>
        \A i, j \in 1..Len(df_investments) :
            (df_investments[i].date = df_investments[j].date
                /\ df_investments[i].symbol = df_investments[j].symbol) => i = j

\* C5: when a resolved symbol has an empty price series and another symbol has
\* price data, the finished execution has raised no exception, has reported
\* the empty series, and has produced the transaction and development tables.
C5_PartialSuccess ==
    (/\ pc = "done"
     /\ session_submitted = "True"
     /\ \E s \in InvestedSymbols : market[s] = {}
     /\ \E s \in InvestedSymbols : market[s] # {})
    => (/\ error = "none"
        /\ \E m \in messages : m.kind = "no_price_data"
        /\ df_investments # <<>>
        /\ df_development # <<>>)

\* C6: in one session the series of a symbol (one cache key) is downloaded at
\* most once, whatever the download returned (stated for runs whose entered
\* texts resolve to distinct symbols, so that a second download of a key is a
\* download at a later nominal date or in a later execution).
C6_DownloadedAtMostOnce ==
    Cardinality(ResolvedSymbols(input_ticker_symbol))
            = Cardinality({t \in input_ticker_symbol : TickerInfo(t).found}) =>
        \A s \in AllSymbols : downloads[s] <= 1

\* C7: the currency collaborator is never called with a source currency equal
\* to the target currency.
C7_NoIdentityConversionCall ==
    \A c \in conv_calls : c.currency # c.new_currency

\* Indices of the transactions of the row's symbol executed on or before the
\* row's date.
TransactionsUpTo(r) ==
    {k \in 1..Len(df_investments) :
        df_investments[k].symbol = r.symbol /\ df_investments[k].date <= r.date}

\* Sum of f over a finite set of indices.
RECURSIVE SumOver(_, _)
SumOver(S, f) ==
    IF S = {} THEN 0
    ELSE LET k == CHOOSE x \in S : TRUE IN f[k] + SumOver(S \ {k}, f)

\* C8: the shares to date of every development row are the sum of the shares
\* bought, and its invested capital to date the sum of the invested amounts,
\* over exactly the transactions of its symbol executed on or before its date.
C8_LedgerViews ==
    \A i \in 1..Len(df_development) :
        LET r == df_development[i]
        IN  /\ r.shares = SumOver(TransactionsUpTo(r),
                                  [k \in 1..Len(df_investments) |-> df_investments[k].shares])
            /\ r.capital = SumOver(TransactionsUpTo(r),
                                   [k \in 1..Len(df_investments) |-> df_investments[k].capital])

\* C8 witness: a development row that counts two transactions, one of them of
\* its own date, while a later transaction of its symbol and a transaction of
\* another symbol are left out.
C8_Witness ==
    \E i \in 1..Len(df_development) :
        LET r == df_development[i]
        IN  /\ Cardinality(TransactionsUpTo(r)) >= 2
            /\ \E k \in TransactionsUpTo(r) : df_investments[k].date = r.date
            /\ \E k \in 1..Len(df_investments) :
                  df_investments[k].symbol = r.symbol /\ df_investments[k].date > r.date
            /\ \E k \in 1..Len(df_investments) :
                  df_investments[k].symbol # r.symbol /\ df_investments[k].date <= r.date

\* The close of the row is converted at the row's date by the rates of the
\* row's currency and the base currency.
CloseConvertedAtDate(r) ==
    r.close_converted * Rate(r.currency, r.date)
        = Close(r.symbol, r.date) * Rate(base_currency, r.date)

\* C9 as stated: the market value of every development row is exactly shares
\* to date times converted close, the gain is value minus capital and the
\* return is exactly gain / capital x 100.
C9_ExactValuation ==
    \A i \in 1..Len(df_development) :
        LET r == df_development[i]
        IN  /\ CloseConvertedAtDate(r)
            /\ r.value * ShareUnit = r.shares * r.close_converted
            /\ r.gain = r.value - r.capital
            /\ r.roi * r.capital = r.gain * 100 * 100

\* C9 amended: the market value is shares to date times converted close to
\* the nearest cent, the gain is value minus capital, and the return is
\* gain / capital x 100 to the nearest hundredth of a percent.
C9_RoundedValuation ==
    \A i \in 1..Len(df_development) :
        LET r == df_development[i]
            dv == r.value * ShareUnit - r.shares * r.close_converted
            dr == r.roi * r.capital - r.gain * 100 * 100
        IN  /\ CloseConvertedAtDate(r)
            /\ r.shares = SumOver(TransactionsUpTo(r),
                                  [k \in 1..Len(df_investments) |-> df_investments[k].shares])
            /\ 2 * dv <= ShareUnit /\ -ShareUnit <= 2 * dv
            /\ r.gain = r.value - r.capital
            /\ r.capital > 0
            /\ 2 * dr <= r.capital /\ -r.capital <= 2 * dr

\* C9 witness: the spec's example (two transactions of 100 at a price of 100,
\* close 100: 2 shares, capital 200, value 200, gain 0, return 0) and, in the
\* same table, a row whose value is not a whole number of cents before rounding.
C9_Witness ==
    /\ \E i \in 1..Len(df_development) :
          LET r == df_development[i]
          IN  /\ Cardinality(TransactionsUpTo(r)) = 2
              /\ \A k \in TransactionsUpTo(r) :
                    df_investments[k].price_converted = 100 * Cents
              /\ r.close_converted = 100 * Cents
              /\ r.shares = 2 * ShareUnit
              /\ r.capital = 200 * Cents
              /\ r.value = 200 * Cents
              /\ r.gain = 0
              /\ r.roi = 0
    /\ \E i \in 1..Len(df_development) :
          (df_development[i].shares * df_development[i].close_converted) % ShareUnit # 0

\* Indices of the development rows of a date.
RowsOfDate(d) == {i \in 1..Len(df_development) : df_development[i].date = d}

\* C10: in a finished execution a date has an '--OVERALL--' row exactly when
\* every invested security has a development row on that date; the row's
\* capital and value are the sums over the development rows of that date and
\* its return is the aggregate gain / aggregate capital x 100.
C10_OverallRows ==
    (pc = "done" /\ symbols # <<>>) =>
        /\ \A d \in DateStart..DateEnd :
              (\E g \in 1..Len(df_grouped) : df_grouped[g].date = d)
                  <=> (\A s \in InvestedSymbols :
                          \E i \in RowsOfDate(d) : df_development[i].symbol = s)
        /\ \A g, h \in 1..Len(df_grouped) :
              df_grouped[g].date = df_grouped[h].date => g = h
        /\ \A g \in 1..Len(df_grouped) :
              LET d == df_grouped[g].date
                  capital == SumOver(RowsOfDate(d),
                                 [i \in 1..Len(df_development) |-> df_development[i].capital])
                  value == SumOver(RowsOfDate(d),
                               [i \in 1..Len(df_development) |-> df_development[i].value])
              IN  /\ df_grouped[g].symbol = "--OVERALL--"
                  /\ df_grouped[g].capital = capital
                  /\ df_grouped[g].value = value
                  /\ capital > 0
                  /\ df_grouped[g].roi = [num |-> (value - capital) * 100, den |-> capital]

\* C10 witness: two securities; a date with rows of both has an aggregate row
\* and a date with a row of only one of them has none.
C10_Witness ==
    /\ pc = "done"
    /\ Cardinality(InvestedSymbols) = 2
    /\ \E g \in 1..Len(df_grouped) : Cardinality(RowsOfDate(df_grouped[g].date)) >= 2
    /\ \E i \in 1..Len(df_development) :
          \A g \in 1..Len(df_grouped) : df_grouped[g].date # df_development[i].date

\* The metrics section has been executed: the development table was built and
\* the script is past line 427 or was ended there.
MetricsShown ==
    pc \in {"dividends", "comparison", "done"} /\ df_development # <<>>

\* The aggregate rows dated at or before the cutoff of a window.
RowsBeforeCutoff(metric) ==
    {g \in 1..Len(df_grouped) :
        df_grouped[g].date <= LastDates(metric, today,
                                        Min({df_grouped[h].date : h \in 1..Len(df_grouped)}))}

\* C11: once the metrics are shown, every window has a result; the result is
\* the sentinel ('-', '-') whenever the aggregate table has no row dated at
\* or before the window's cutoff, and a number whenever it has one.
C11_SentinelWhenNoHistory ==
    MetricsShown =>
        \A i \in 1..Len(Metrics) :
            /\ Metrics[i] \in DOMAIN metric_results
            /\ metric_results[Metrics[i]].na
                   <=> (df_grouped = <<>> \/ RowsBeforeCutoff(Metrics[i]) = {})

\* The aggregate rows dated at or before the cutoff of a window, when the
\* cutoff is counted back from the latest date of the aggregate rows.
RowsBeforeCutoffOfLatest(metric) ==
    LET dates == {df_grouped[h].date : h \in 1..Len(df_grouped)}
    IN  {g \in 1..Len(df_grouped) :
            df_grouped[g].date <= LastDates(metric, Max(dates), Min(dates))}

InvestmentDaysInRange ==
    {d \in date_start..date_end : DayOf(d) = investment_day}

\* C13: is_investment_day_valid reports valid exactly when some date of
\* [start, end] has the investment day as its day of the month, and then
\* returns the earliest such date: the one of the start month when it is not
\* before the start date, else the one of the next month.
C13_DayOfMonthValid ==
    day_pc = "return" =>
        /\ is_date_correct <=> InvestmentDaysInRange # {}
        /\ is_date_correct =>
              /\ potential_start_date = Min(InvestmentDaysInRange)
              /\ potential_start_date =
                     IF PotentialStartDate(investment_day, date_start) >= date_start
                     THEN PotentialStartDate(investment_day, date_start)
                     ELSE PlusOneMonth(PotentialStartDate(investment_day, date_start))

\* C13 witness: start Jan 1, end Mar 31, day 15 returns valid with Jan 15.
C13_Witness ==
    /\ day_pc = "return"
    /\ date_start = 1 /\ date_end = 90 /\ investment_day = 15
    /\ is_date_correct /\ potential_start_date = 15

\* C14 as stated: start Jan 20, end Feb 20, day 25 is reported as not valid.
C14_Jan20Rejected ==
    (day_pc = "return" /\ date_start = 20 /\ date_end = 51 /\ investment_day = 25)
        => ~is_date_correct

\* C14 amended: start Jan 20, end Feb 20, day 25 is valid with the first
\* date Jan 25, which lies in the range; a start date after the 25th (Jan 26
\* to Jan 31) with the same end date and day is reported as not valid, the
\* candidate being Feb 25, after the end date.
C14_Jan25Accepted ==
    (day_pc = "return" /\ date_end = 51 /\ investment_day = 25) =>
        /\ date_start = 20 => (is_date_correct /\ potential_start_date = 25)
        /\ date_start \in 26..31 =>
              (~is_date_correct /\ potential_start_date = DaysBefore(2) + 25)

\* C14 witness: the call with start Jan 20, end Feb 20, day 25 has returned.
C14_Witness ==
    /\ day_pc = "return"
    /\ date_start = 20 /\ date_end = 51 /\ investment_day = 25
    /\ potential_start_date = 25

\* The date follows the earlier one by one step of the frequency: one day,
\* seven days, or the same day of the next calendar month (clamped to the
\* length of that month).
StepOfFrequency(p, d) ==
    CASE investment_frequency = "Daily" -> d = p + 1
      [] investment_frequency = "Weekly" -> d = p + 7
      [] OTHER ->
           /\ MonthOf(d) = MonthOf(p) + 1
           /\ DayOf(d) = Min({DayOf(p), MonthDays[MonthOf(d)]})

\* C15: the nominal dates the scheduling loop visits start exactly at the
\* start date, each later one follows the one before by one step of the
\* frequency, all of them lie in [start, end], and the loop has ended exactly
\* when the next date exceeds the end date.
C15_FrequencySchedule ==
    /\ visited \subseteq DateStart..DateEnd
    /\ visited # {} => DateStart \in visited
    /\ (pc = "loop" /\ visited = {}) => current_investment_date = DateStart
    /\ \A d \in visited \ {DateStart} :
          \E p \in visited : p < d /\ StepOfFrequency(p, d)
                               /\ \A q \in visited : ~(p < q /\ q < d)
    /\ (pc = "loop" /\ visited # {}) =>
          StepOfFrequency(Max(visited), current_investment_date)
    /\ pc \in {"tables", "development", "aggregate", "metrics", "dividends", "comparison"}
          => (current_investment_date > DateEnd /\ visited # {}
              /\ StepOfFrequency(Max(visited), current_investment_date))

\* C15 witness: a monthly schedule has visited Jan 1 and Feb 1 and ended at
\* Mar 1, the first date after the end date.
C15_Witness ==
    /\ investment_frequency = "Monthly"
    /\ visited = {1, 32}
    /\ current_investment_date = 60
    /\ pc = "tables"

\* The dividends section has been executed.
DividendsShown ==
    pc \in {"comparison", "done"} /\ metric_results # EmptyFunction

\* Indices of the dividend rows of a date and symbol.
DividendRows(d, sym) ==
    {j \in 1..Len(dividends) : dividends[j].date = d /\ dividends[j].symbol = sym}

C17_UniqueSecurities ==
    /\ Len(symbols) = Cardinality(InvestedSymbols)
    /\ \A i, j \in 1..Len(rows) :
          (rows[i].nominal = rows[j].nominal /\ rows[i].symbol = rows[j].symbol) => i = j

\* The comparison section has computed the lump-sum strategy.
LumpSumShown ==
    pc = "done" /\ error = "none" /\ data_lump_sum # <<>>

\* The open of the first record of the security's series.
FirstOpen(sym) == Open(sym, Min(market[sym]))

\* One of n even parts of the total, times the security's close of the date
\* over the open of its first trading day.
EvenShareScaled(total, n, sym, d) ==
    Times(Normalise([num |-> Close(sym, d), den |-> n * FirstOpen(sym)]), total)

RunFinished ==
    pc = "done" /\ session_submitted = "True" /\ input_ticker_symbol # {}

\* Every invested security has price data and some date has a record of all
\* of them.
AllSeriesOverlap ==
    /\ \A sym \in InvestedSymbols : market[sym] # {}
    /\ \E d \in MarketDays : \A sym \in InvestedSymbols : d \in market[sym]

NoCapitalYet(d, sym) ==
    \A k \in 1..Len(df_investments) :
        ~(df_investments[k].symbol = sym /\ df_investments[k].date <= d)

\* C20: a date and security without any transaction of that security on or
\* before that date has no development row: every development row has
\* invested capital, and get_values_to_date never fails for want of one.
C20_NoCapitalNoRow ==
    /\ error # "IndexError"
    /\ \A i \in 1..Len(df_development) :
          /\ ~NoCapitalYet(df_development[i].date, df_development[i].symbol)
          /\ df_development[i].capital > 0
    /\ df_development # <<>> =>
          \A d \in DateStart..DateEnd : \A sym \in InvestedSymbols :
              NoCapitalYet(d, sym) =>
                  \A i \in 1..Len(df_development) :
                      ~(df_development[i].date = d /\ df_development[i].symbol = sym)

\* C20 witness: the development table is built; on a date with a row of one
\* security another security has no capital invested yet and no row, and
\* has rows on later dates.
C20_Witness ==
    \E i, j \in 1..Len(df_development) :
        /\ df_development[i].symbol # df_development[j].symbol
        /\ df_development[i].date < df_development[j].date
        /\ NoCapitalYet(df_development[i].date, df_development[j].symbol)

\* C21: once CONFIRM CHOICES has been pressed in some execution of the
\* script, st.session_state['submitted'] is true in that execution and in
\* every later one; before any press it is not true.
C21_SubmitFlag ==
    IF pressed THEN session_submitted = "True"
    ELSE session_submitted \in {"absent", "False"}

=============================================================================
